---------------------------- MODULE Spec2Model ----------------------------
(***************************************************************************)
(* A model of lib/index.ts, the Web IDL value-conversion library.          *)
(*                                                                         *)
(* A call of a converter is one action: it takes the host value and the    *)
(* configuration record and leaves the call's outcome, either              *)
(*   [kind |-> "return", value |-> v]   or   [kind |-> "throw", error |-> e]*)
(* in the variable out.  Every helper that can throw returns such an       *)
(* outcome, and Bind propagates a throw the way a JavaScript exception     *)
(* unwinds.                                                                *)
(*                                                                         *)
(* JavaScript numbers and BigInts are modelled exactly, in sign-magnitude  *)
(* form: a magnitude is a little-endian sequence of NLimbs base-256 digits,*)
(* so that 2^32, 2^53 and 2^64 are ordinary values; a Number also carries  *)
(* a fractional part in tenths, and -0 is the finite Number with sign and  *)
(* zero magnitude.                                                         *)
(***************************************************************************)
EXTENDS Integers, Sequences, FiniteSets, TLC

VARIABLES pc, call, out, again, detached

vars == <<pc, call, out, again, detached>>

---------------------------------------------------------------------------
(* Bounds of the model *)

\* number of base-256 digits of a magnitude (values below 2^(8*NLimbs))
NLimbs == 9
\* inputs lie within MaxOff steps of 0 and of each power of two that bounds a type
MaxOff == 2
\* longest input string of the string converters, in code units
MaxLen == 3
\* number of non-shared buffers the host holds
NumBuffers == 2

---------------------------------------------------------------------------
(* Outcomes of a call, and exception propagation *)

Return(v) == [kind |-> "return", value |-> v]

Throw(e) == [kind |-> "throw", error |-> e]

Bind(o, F(_)) == IF o.kind = "throw" THEN o ELSE F(o.value)

None == [kind |-> "none"]

\* An error object: its constructor's name, the realm the constructor belongs
\* to, and its message as the pieces the template literal joins.
Error(type, realm, message) == [type |-> type, realm |-> realm, message |-> message]

\* Evaluating an identifier that has no binding.
UnresolvedReference(name) ==
    Throw(Error("ReferenceError", "ambient", <<name, " is not defined">>))

\* A TypeError thrown by the host itself (ToNumber of a BigInt, mixing BigInt
\* and Number, a getter called on the wrong receiver).
HostTypeError(text) == Throw(Error("TypeError", "ambient", <<text>>))

---------------------------------------------------------------------------
(* Magnitudes: little-endian base-256 digit sequences of length NLimbs *)

Limbs == 1..NLimbs

ZeroMag == [i \in Limbs |-> 0]

Pow256(j) == CASE j = 0 -> 1 [] j = 1 -> 256 [] j = 2 -> 65536 [] OTHER -> 16777216

\* the magnitude of a natural number below 2^31
MagOfNat(k) == [i \in Limbs |-> IF i <= 4 THEN (k \div Pow256(i - 1)) % 256 ELSE 0]

\* the magnitude 2^e
PowTwo(e) == [i \in Limbs |-> IF i = (e \div 8) + 1 THEN 2 ^ (e % 8) ELSE 0]

SetMax(S) == CHOOSE m \in S : \A x \in S : x <= m

\* -1, 0, 1 as a < b, a = b, a > b
CmpMag(a, b) ==
    LET D == {i \in Limbs : a[i] # b[i]}
    IN  IF D = {} THEN 0
        ELSE IF a[SetMax(D)] < b[SetMax(D)] THEN -1 ELSE 1

AddMag(a, b) ==
    LET c[i \in 0..NLimbs] ==
            IF i = 0 THEN 0 ELSE (a[i] + b[i] + c[i - 1]) \div 256
    IN  [i \in Limbs |-> (a[i] + b[i] + c[i - 1]) % 256]

\* a - b, for a >= b
SubMag(a, b) ==
    LET w[i \in 0..NLimbs] ==
            IF i = 0 THEN 0 ELSE IF a[i] - b[i] - w[i - 1] < 0 THEN 1 ELSE 0
    IN  [i \in Limbs |-> (a[i] - b[i] - w[i - 1] + 256) % 256]

\* a mod 2^n, for n a multiple of 8
LowBits(a, n) == [i \in Limbs |-> IF i <= n \div 8 THEN a[i] ELSE 0]

\* the n for which a = 2^n, for a a power of 2^8
Log2Mag(a) == 8 * (SetMax({i \in Limbs : a[i] # 0}) - 1)

---------------------------------------------------------------------------
(* JavaScript Number and BigInt values *)

Num(neg, mag, frac) ==
    [t |-> "number", c |-> "fin", neg |-> neg, mag |-> mag, frac |-> frac]

NaN == [t |-> "number", c |-> "nan", neg |-> FALSE, mag |-> ZeroMag, frac |-> 0]

Infinity(neg) == [t |-> "number", c |-> "inf", neg |-> neg, mag |-> ZeroMag, frac |-> 0]

\* a BigInt; zero has no sign
BigIntValue(neg, mag) ==
    [t |-> "bigint", c |-> "fin", neg |-> neg /\ mag # ZeroMag, mag |-> mag, frac |-> 0]

PlusZero == Num(FALSE, ZeroMag, 0)

MinusZero == Num(TRUE, ZeroMag, 0)

IsZero(x) == x.c = "fin" /\ x.mag = ZeroMag /\ x.frac = 0

IsInteger(x) == x.c = "fin" /\ x.frac = 0

\* -1, 0, 1 as x < y, x = y, x > y, for finite x and y of either type
\* (the abstract relational comparison compares a Number and a BigInt by their
\* mathematical values; -0 equals +0)
CmpFinite(x, y) ==
    IF IsZero(x) /\ IsZero(y) THEN 0
    ELSE IF x.neg # y.neg THEN (IF x.neg THEN -1 ELSE 1)
    ELSE LET m == CmpMag(x.mag, y.mag)
             a == IF m # 0 THEN m
                  ELSE IF x.frac < y.frac THEN -1
                  ELSE IF x.frac > y.frac THEN 1 ELSE 0
         IN  IF x.neg THEN -a ELSE a

\* x < y
LessThan(x, y) ==
    IF x.c = "nan" \/ y.c = "nan" THEN FALSE
    ELSE IF x.c = "inf" THEN x.neg /\ ~(y.c = "inf" /\ y.neg)
    ELSE IF y.c = "inf" THEN ~y.neg
    ELSE CmpFinite(x, y) < 0

\* x > y
GreaterThan(x, y) == LessThan(y, x)

\* x >= y
GreaterEqual(x, y) == x.c # "nan" /\ y.c # "nan" /\ ~LessThan(x, y)

\* x <= y
LessEqual(x, y) == GreaterEqual(y, x)

\* BigInt(x), for an integral Number x
BigInt(x) == BigIntValue(x.neg, x.mag)

\* Number(b), for a BigInt b that a double holds exactly
Number(b) == Num(b.neg, b.mag, 0)

\* the sum of two integers of one type
AddInteger(x, y) ==
    LET r == IF x.neg = y.neg THEN <<x.neg, AddMag(x.mag, y.mag)>>
             ELSE IF CmpMag(x.mag, y.mag) >= 0 THEN <<x.neg, SubMag(x.mag, y.mag)>>
             ELSE <<y.neg, SubMag(y.mag, x.mag)>>
    IN  IF x.t = "bigint" THEN BigIntValue(r[1], r[2])
        ELSE Num(r[1] /\ r[2] # ZeroMag, r[2], 0)

Negate(x) == [x EXCEPT !.neg = ~x.neg /\ (x.t = "number" \/ x.mag # ZeroMag)]

\* x + y
Plus(x, y) ==
    IF x.t # y.t
    THEN HostTypeError("Cannot mix BigInt and other types, use explicit conversions")
    ELSE Return(AddInteger(x, y))

\* x - y
Minus(x, y) ==
    IF x.t # y.t
    THEN HostTypeError("Cannot mix BigInt and other types, use explicit conversions")
    ELSE Return(AddInteger(x, Negate(y)))

\* x % y for Numbers, y a positive power of 2^8: the remainder takes the sign
\* of the dividend
Remainder(x, y) ==
    IF x.c # "fin" THEN NaN
    ELSE Num(x.neg, LowBits(x.mag, Log2Mag(y.mag)), x.frac)

---------------------------------------------------------------------------
(* Host arithmetic the converters call *)

Cannot_convert_BigInt == "Cannot convert a BigInt value to a number"

\* Number.isFinite
isFinite(x) == x.t = "number" /\ x.c = "fin"

\* Number.isNaN
isNaN(x) == x.t = "number" /\ x.c = "nan"

\* Math.trunc
trunc(x) == IF x.c = "fin" THEN Num(x.neg, x.mag, 0) ELSE x

\* Math.floor
floor(x) ==
    IF x.c # "fin" \/ x.frac = 0 THEN x
    ELSE IF x.neg THEN Num(TRUE, AddMag(x.mag, MagOfNat(1)), 0)
    ELSE Num(FALSE, x.mag, 0)

\* Math.round: to the nearest integer, a tie going towards +Infinity
round(x) ==
    IF x.c # "fin" \/ x.frac = 0 THEN x
    ELSE IF x.neg
         THEN (IF x.frac > 5 THEN Num(TRUE, AddMag(x.mag, MagOfNat(1)), 0)
               ELSE Num(TRUE, x.mag, 0))
         ELSE (IF x.frac >= 5 THEN Num(FALSE, AddMag(x.mag, MagOfNat(1)), 0)
               ELSE Num(FALSE, x.mag, 0))

\* Math.max of two arguments: each goes through ToNumber, which throws on a BigInt
max(a, b) ==
    IF a.t = "bigint" \/ b.t = "bigint" THEN HostTypeError(Cannot_convert_BigInt)
    ELSE IF a.c = "nan" \/ b.c = "nan" THEN Return(NaN)
    ELSE IF IsZero(a) /\ IsZero(b) THEN Return(IF a.neg /\ b.neg THEN MinusZero ELSE PlusZero)
    ELSE Return(IF LessThan(a, b) THEN b ELSE a)

\* Math.min of two arguments
min(a, b) ==
    IF a.t = "bigint" \/ b.t = "bigint" THEN HostTypeError(Cannot_convert_BigInt)
    ELSE IF a.c = "nan" \/ b.c = "nan" THEN Return(NaN)
    ELSE IF IsZero(a) /\ IsZero(b) THEN Return(IF a.neg \/ b.neg THEN MinusZero ELSE PlusZero)
    ELSE Return(IF LessThan(b, a) THEN b ELSE a)

\* BigInt.asUintN(bits, b), bits a multiple of 8
asUintN(bits, b) ==
    LET m == LowBits(b.mag, bits)
    IN  IF b.neg /\ m # ZeroMag THEN BigIntValue(FALSE, SubMag(PowTwo(bits), m))
        ELSE BigIntValue(FALSE, m)

\* BigInt.asIntN(bits, b), bits a multiple of 8
asIntN(bits, b) ==
    LET u == asUintN(bits, b)
    IN  IF CmpMag(u.mag, PowTwo(bits - 1)) >= 0
        THEN BigIntValue(TRUE, SubMag(PowTwo(bits), u.mag))
        ELSE u

MAX_SAFE_INTEGER == Num(FALSE, SubMag(PowTwo(53), MagOfNat(1)), 0)

MIN_SAFE_INTEGER == Num(TRUE, SubMag(PowTwo(53), MagOfNat(1)), 0)

---------------------------------------------------------------------------
(* lib/index.ts: helpers *)

clamp(x, lowerBound, upperBound) ==
    Bind(max(x, lowerBound), LAMBDA m : min(m, upperBound))

\* The error object of a failed conversion.  With opts.globals the
\* constructor is the alternate realm's of the same name.
makeException(ErrorType, message, opts) ==
    Error(ErrorType,
          IF opts.globals THEN "alternate" ELSE "ambient",
          <<IF opts.context # "" THEN opts.context ELSE "Value", " ", message, ".">>)

toNumber(value, opts) ==
    IF ~opts.globals
    THEN (IF value.t = "bigint" THEN HostTypeError(Cannot_convert_BigInt)
          ELSE Return(value))
    ELSE IF value.t = "bigint"
    THEN Throw(Error("TypeError", "alternate", <<Cannot_convert_BigInt>>))
    ELSE Return(value)

censorNegativeZero(x) == IF x.t = "number" /\ IsZero(x) THEN PlusZero ELSE x

evenRound(x) ==
    LET int == trunc(x)
        \* x - int: the sign of x and its fractional part
        decimals == Num(x.neg, ZeroMag, x.frac)
        \* (int | 0) & 1: the parity of int
        and == int.mag[1] % 2
        useFloor ==
            \/ GreaterThan(x, PlusZero) /\ decimals = Num(FALSE, ZeroMag, 5) /\ and = 0
            \/ LessThan(x, PlusZero) /\ decimals = Num(TRUE, ZeroMag, 5) /\ and = 1
    IN  censorNegativeZero(IF useFloor THEN floor(x) ELSE round(x))

\* integerPart without the normalization of -0
integerPart_keepsNegativeZero(n) == trunc(n)

integerPart(n) == censorNegativeZero(trunc(n))

\* Negative and Positive are members of the enum Sign and are not in scope in
\* the body of sign, which names them bare.
sign(x) ==
    IF LessThan(x, PlusZero) THEN UnresolvedReference("Negative")
    ELSE UnresolvedReference("Positive")

modulo(x, y) ==
    LET signMightNotMatch == Remainder(x, y)
    IN  Bind(sign(y), LAMBDA sy :
        Bind(sign(signMightNotMatch), LAMBDA sx :
             IF sy # sx THEN Plus(signMightNotMatch, y)
             ELSE Return(signMightNotMatch)))

---------------------------------------------------------------------------
(* lib/index.ts: the integer converters *)

\* [lowerBound, upperBound] of createIntegerConversion
IntegerBounds(bitLength, unsigned) ==
    IF bitLength = 64
    THEN <<BigInt(MAX_SAFE_INTEGER),
           IF unsigned THEN PlusZero ELSE BigInt(MIN_SAFE_INTEGER)>>
    ELSE IF unsigned
    THEN <<BigIntValue(FALSE, ZeroMag),
           BigIntValue(FALSE, SubMag(PowTwo(bitLength), MagOfNat(1)))>>
    ELSE <<BigIntValue(TRUE, PowTwo(bitLength - 1)),
           BigIntValue(FALSE, SubMag(PowTwo(bitLength - 1), MagOfNat(1)))>>

\* the detail of the range error: the template literal prints both bounds
OutsideRange(lowerBound, upperBound) ==
    <<"is outside the accepted range of ", lowerBound.neg, lowerBound.mag,
      " to ", upperBound.neg, upperBound.mag, ", inclusive">>

createIntegerConversion(bitLength, unsigned, V, opts) ==
    LET isSigned == ~unsigned
        twoToTheBitLength == BigIntValue(FALSE, PowTwo(bitLength))
        twoToOneLessThanTheBitLength == BigIntValue(FALSE, PowTwo(bitLength - 1))
        lowerBound == IntegerBounds(bitLength, unsigned)[1]
        upperBound == IntegerBounds(bitLength, unsigned)[2]
    IN  Bind(toNumber(V, opts), LAMBDA x0 :
        LET x == censorNegativeZero(x0)
        IN  IF opts.enforceRange
            THEN IF ~isFinite(x)
                 THEN Throw(makeException("TypeError", <<"is not a finite number">>, opts))
                 ELSE IF \/ LessThan(integerPart(x), lowerBound)
                         \/ GreaterThan(integerPart(x), upperBound)
                 THEN Throw(makeException("TypeError",
                                          OutsideRange(lowerBound, upperBound), opts))
                 ELSE Return(integerPart(x))
            ELSE IF ~isNaN(x) /\ opts.clamp
            THEN Bind(clamp(x, lowerBound, upperBound), LAMBDA c : Return(evenRound(c)))
            ELSE IF ~isFinite(x) \/ IsZero(x)
            THEN Return(PlusZero)
            ELSE IF /\ GreaterEqual(integerPart(x), lowerBound)
                    /\ LessEqual(integerPart(x), upperBound)
            THEN Return(integerPart(x))
            ELSE Bind(modulo(integerPart(x), Number(twoToTheBitLength)), LAMBDA m :
                      IF isSigned /\ GreaterEqual(m, twoToOneLessThanTheBitLength)
                      THEN Minus(m, twoToTheBitLength)
                      ELSE Return(m)))

\* [lowerBound, upperBound] of createLongLongConversion
LongLongBounds(unsigned) ==
    <<IF unsigned THEN PlusZero ELSE MIN_SAFE_INTEGER, MAX_SAFE_INTEGER>>

createLongLongConversion(bitLength, unsigned, V, opts) ==
    LET upperBound == LongLongBounds(unsigned)[2]
        lowerBound == LongLongBounds(unsigned)[1]
    IN  Bind(toNumber(V, opts), LAMBDA x0 :
        LET x == censorNegativeZero(x0)
        IN  IF opts.enforceRange
            THEN IF ~isFinite(x)
                 THEN Throw(makeException("TypeError", <<"is not a finite number">>, opts))
                 ELSE IF \/ LessThan(integerPart(x), lowerBound)
                         \/ GreaterThan(integerPart(x), upperBound)
                 THEN Throw(makeException("TypeError",
                                          OutsideRange(lowerBound, upperBound), opts))
                 ELSE Return(integerPart(x))
            ELSE IF ~isNaN(x) /\ opts.clamp
            THEN Bind(clamp(x, lowerBound, upperBound), LAMBDA c : Return(evenRound(c)))
            ELSE IF ~isFinite(x) \/ IsZero(x)
            THEN Return(PlusZero)
            ELSE Return(IF unsigned THEN asUintN(bitLength, BigInt(integerPart(x)))
                        ELSE asIntN(bitLength, BigInt(integerPart(x)))))

export_byte(V, opts) == createIntegerConversion(8, FALSE, V, opts)

export_octet(V, opts) == createIntegerConversion(8, TRUE, V, opts)

export_short(V, opts) == createIntegerConversion(16, FALSE, V, opts)

export_unsigned_short(V, opts) == createIntegerConversion(16, TRUE, V, opts)

export_long(V, opts) == createIntegerConversion(32, FALSE, V, opts)

export_unsigned_long(V, opts) == createIntegerConversion(32, TRUE, V, opts)

export_long_long(V, opts) == createLongLongConversion(64, FALSE, V, opts)

export_unsigned_long_long(V, opts) == createLongLongConversion(64, TRUE, V, opts)

export_DOMTimeStamp(V, opts) == export_unsigned_long_long(V, opts)

---------------------------------------------------------------------------
(* lib/index.ts: the string converters *)

\* a string value: its 16-bit code units
StringValue(units) == [t |-> "string", units |-> units]

Null == [t |-> "null"]

SymbolValue == [t |-> "symbol"]

\* String(V), for V a string or null
StringCtor(V) ==
    IF V.t = "null" THEN StringValue(<<110, 117, 108, 108>>) ELSE V

export_DOMString(V, opts) ==
    IF V.t = "null" /\ opts.treatNullAsEmptyString
    THEN Return(StringValue(<<>>))
    ELSE IF V.t = "symbol"
    THEN Throw(makeException("TypeError",
                 <<"is a symbol, which cannot be converted to a string">>, opts))
    ELSE Return(StringCtor(V))

\* String.fromCodePoint of one code point: the string of its UTF-16 encoding
fromCodePoint(cp) ==
    IF cp < 65536 THEN <<cp>>
    ELSE <<55296 + ((cp - 65536) \div 1024), 56320 + ((cp - 65536) % 1024)>>

\* charCodeAt is not among the names the module takes from String.prototype
\* (codePointAt and the iterator are), so the identifier has no binding.
charCodeAt(S, i) == UnresolvedReference("charCodeAt")

\* Array.prototype.join with the separator ""
RECURSIVE join(_)
join(U) == IF U = <<>> THEN <<>> ELSE Head(U) \o join(Tail(U))

\* the loop of export_USVString from index i (0-based) with the list U built so far
RECURSIVE USVStringLoop(_, _, _)
USVStringLoop(S, i, U) ==
    LET n == Len(S)
    IN  IF ~(i < n) THEN Return(StringValue(join(U)))
        ELSE Bind(charCodeAt(S, i), LAMBDA c :
             IF c < 55296 \/ c > 57343
             THEN USVStringLoop(S, i + 1, Append(U, fromCodePoint(c)))
             ELSE IF (56320 <= c /\ c <= 57343) \/ i = n - 1
             THEN USVStringLoop(S, i + 1, Append(U, fromCodePoint(65533)))
             ELSE Bind(charCodeAt(S, i + 1), LAMBDA d :
                  IF 56320 <= d /\ d <= 57343
                  THEN USVStringLoop(S, i + 2,
                           Append(U, fromCodePoint(65536 + (1024 * (c % 1024)) + (d % 1024))))
                  ELSE USVStringLoop(S, i + 1, Append(U, fromCodePoint(65533)))))

export_USVString(V, opts) ==
    Bind(export_DOMString(V, opts), LAMBDA S : USVStringLoop(S.units, 0, <<>>))

---------------------------------------------------------------------------
(* lib/index.ts: the buffer and view converters *)

\* Host objects.  A buffer is identified by id; a view names its buffer.
ArrayBufferObject(i) == [t |-> "object", class |-> "ArrayBuffer", id |-> i]

SharedArrayBufferObject == [t |-> "object", class |-> "SharedArrayBuffer", id |-> 0]

ViewObject(class, buffer) == [t |-> "object", class |-> class, buffer |-> buffer]

PlainObject == [t |-> "object", class |-> "Object"]

FunctionObject == [t |-> "object", class |-> "Function"]

TypedArrayNames ==
    {"Int8Array", "Uint8Array", "Uint16Array", "Int16Array", "Uint32Array",
     "Int32Array", "BigUint64Array", "BigInt64Array", "Float32Array",
     "Float64Array", "Uint8ClampedArray"}

\* whether /^[AEIOU]/ matches the constructor's name
StartsWithVowel(name) ==
    name \in {"Int8Array", "Uint8Array", "Uint16Array", "Int16Array", "Uint32Array",
              "Int32Array", "Uint8ClampedArray"}

\* ArrayBuffer.isView
isView(V) == V.t = "object" /\ V.class \in TypedArrayNames \cup {"DataView"}

\* get %TypedArray%.prototype[@@toStringTag] with V as receiver
typedArrayNameGetter(V) ==
    IF V.t = "object" /\ V.class \in TypedArrayNames THEN V.class ELSE "undefined"

\* an accessor of a prototype called as a plain function: its receiver is
\* undefined, and the getter throws
CalledWithoutReceiver == HostTypeError("Receiver is not of the required type")

\* typedArrayBufferGetter(V): the getter of %TypedArray%.prototype.buffer
typedArrayBufferGetter(V) == CalledWithoutReceiver

\* dvBufferGetter(V): the getter of DataView.prototype.buffer
dvBufferGetter(V) == CalledWithoutReceiver

\* Reflect.apply(target, thisArgument, args): target must be callable; the one
\* callable of the model returns normally
apply(target, thisArgument) ==
    IF target.t = "object" /\ target.class = "Function" THEN Return("undefined")
    ELSE HostTypeError("Function.prototype.apply was called on a non-callable")

\* const { buffer } = V, for a view V
BufferOf(V) == V.buffer

isNonSharedArrayBuffer(V) == V.t = "object" /\ V.class = "ArrayBuffer"

isSharedArrayBuffer(V) == V.t = "object" /\ V.class = "SharedArrayBuffer"

\* a probe that never reports a detached buffer
isArrayBufferDetached_neverDetached(V) == FALSE

\* new Uint8Array(V) throws for a detached buffer
isArrayBufferDetached(V) == V \in detached

export_ArrayBuffer(V, opts) ==
    IF ~isNonSharedArrayBuffer(V)
    THEN IF opts.allowShared /\ ~isSharedArrayBuffer(V)
         THEN Throw(makeException("TypeError",
                      <<"is not an ArrayBuffer or SharedArrayBuffer">>, opts))
         ELSE Throw(makeException("TypeError", <<"is not an ArrayBuffer">>, opts))
    ELSE IF isArrayBufferDetached(V)
    THEN Throw(makeException("TypeError", <<"is a detached ArrayBuffer">>, opts))
    ELSE Return(V)

export_DataView(V, opts) ==
    IF apply(V, "dvByteLengthGetter").kind = "throw"
    THEN Throw(makeException("TypeError", <<"is not a DataView">>, opts))
    ELSE Bind(dvBufferGetter(V), LAMBDA buffer :
         IF ~opts.allowShared /\ isSharedArrayBuffer(buffer)
         THEN Throw(makeException("TypeError",
                      <<"is backed by a SharedArrayBuffer, which is not allowed">>, opts))
         ELSE IF isArrayBufferDetached(buffer)
         THEN Throw(makeException("TypeError",
                      <<"is backed by a detached ArrayBuffer">>, opts))
         ELSE Return(V))

specializeTypedArrayConverter(name, V, opts) ==
    LET article == IF StartsWithVowel(name) THEN "an" ELSE "a"
    IN  IF ~isView(V) \/ typedArrayNameGetter(V) # name
        THEN Throw(makeException("TypeError",
                     <<"is not ", article, " ", name, " object">>, opts))
        ELSE Bind(typedArrayBufferGetter(V), LAMBDA buffer :
             IF ~opts.allowShared /\ isSharedArrayBuffer(buffer)
             THEN Throw(makeException("TypeError",
                          <<"is a view on a SharedArrayBuffer, which is not allowed">>, opts))
             ELSE IF isArrayBufferDetached(buffer)
             THEN Throw(makeException("TypeError",
                          <<"is a view on a detached ArrayBuffer">>, opts))
             ELSE Return(V))

export_ArrayBufferView(V, opts) ==
    IF ~isView(V)
    THEN Throw(makeException("TypeError",
                 <<"is not a view on an ArrayBuffer or SharedArrayBuffer">>, opts))
    ELSE IF ~opts.allowShared /\ isSharedArrayBuffer(BufferOf(V))
    THEN Throw(makeException("TypeError",
                 <<"is a view on a SharedArrayBuffer, which is not allowed">>, opts))
    ELSE IF isArrayBufferDetached(BufferOf(V))
    THEN Throw(makeException("TypeError", <<"is a view on a detached ArrayBuffer">>, opts))
    ELSE Return(V)

export_BufferSource(V, opts) ==
    IF isView(V)
    THEN \* const { buffer } = A: no A is in scope
         Bind(UnresolvedReference("A"), LAMBDA A :
         IF ~opts.allowShared /\ isSharedArrayBuffer(BufferOf(A))
         THEN Throw(makeException("TypeError",
                      <<"is a view on a SharedArrayBuffer, which is not allowed">>, opts))
         ELSE IF isArrayBufferDetached(BufferOf(A))
         THEN Throw(makeException("TypeError",
                      <<"is a view on a detached ArrayBuffer">>, opts))
         ELSE Return(V))
    ELSE IF ~opts.allowShared /\ ~isNonSharedArrayBuffer(V)
    THEN Throw(makeException("TypeError",
                 <<"is not an ArrayBuffer or a view on one">>, opts))
    ELSE IF opts.allowShared /\ ~isSharedArrayBuffer(V) /\ ~isNonSharedArrayBuffer(V)
    THEN Throw(makeException("TypeError",
                 <<"is not an ArrayBuffer, SharedArrayBuffer, or a view on one">>, opts))
    ELSE IF isArrayBufferDetached(V)
    THEN Throw(makeException("TypeError", <<"is a detached ArrayBuffer">>, opts))
    ELSE Return(V)

---------------------------------------------------------------------------
(* The default export: the registry of converters by Web IDL type name *)

IntegerNames == {"byte", "octet", "short", "unsigned short", "long", "unsigned long"}

LongLongNames == {"long long", "unsigned long long", "DOMTimeStamp"}

\* the bitLength each integer converter is built with
BitLengthOf(name) ==
    CASE name \in {"byte", "octet"} -> 8
      [] name \in {"short", "unsigned short"} -> 16
      [] name \in {"long", "unsigned long"} -> 32
      [] name \in LongLongNames -> 64

\* the unsigned flag each integer converter is built with
UnsignedOf(name) ==
    name \in {"octet", "unsigned short", "unsigned long", "unsigned long long", "DOMTimeStamp"}

BufferConverterNames ==
    {"ArrayBuffer", "DataView", "ArrayBufferView", "BufferSource"} \cup TypedArrayNames

Registry(name, V, opts) ==
    CASE name = "byte" -> export_byte(V, opts)
      [] name = "octet" -> export_octet(V, opts)
      [] name = "short" -> export_short(V, opts)
      [] name = "unsigned short" -> export_unsigned_short(V, opts)
      [] name = "long" -> export_long(V, opts)
      [] name = "unsigned long" -> export_unsigned_long(V, opts)
      [] name = "long long" -> export_long_long(V, opts)
      [] name = "unsigned long long" -> export_unsigned_long_long(V, opts)
      [] name = "DOMTimeStamp" -> export_DOMTimeStamp(V, opts)
      [] name = "DOMString" -> export_DOMString(V, opts)
      [] name = "USVString" -> export_USVString(V, opts)
      [] name = "ArrayBuffer" -> export_ArrayBuffer(V, opts)
      [] name = "DataView" -> export_DataView(V, opts)
      [] name \in TypedArrayNames -> specializeTypedArrayConverter(name, V, opts)
      [] name = "ArrayBufferView" -> export_ArrayBufferView(V, opts)
      [] name = "BufferSource" -> export_BufferSource(V, opts)

---------------------------------------------------------------------------
(* Inputs *)

\* the configuration record; an absent or empty context is ""
Options(er, cl, as, tn, cx, gl) ==
    [enforceRange |-> er, clamp |-> cl, allowShared |-> as,
     treatNullAsEmptyString |-> tn, context |-> cx, globals |-> gl]

Contexts == {"", "Argument 1"}

\* fractional parts of the inputs, in tenths
Fracs == {0, 4, 5, 9}

\* the powers of two at which a type's range ends and below which a double
\* holds fractions
SmallExps == {7, 8, 15, 16, 31, 32}

\* 2^53 (the safe-integer limit), 2^63 and 2^64
LargeExps == {53, 63, 64}

Offsets == (0 - MaxOff)..MaxOff

\* the distance between the doubles next to 2^e on the side of d
UnitOf(e, d) == IF e <= 32 THEN 1 ELSE IF e = 53 THEN (IF d > 0 THEN 2 ELSE 1) ELSE 4096

\* the magnitude 2^e + d * UnitOf(e, d)
Near(e, d) ==
    IF d >= 0 THEN AddMag(PowTwo(e), MagOfNat(d * UnitOf(e, d)))
    ELSE SubMag(PowTwo(e), MagOfNat((0 - d) * UnitOf(e, d)))

NumberInputs ==
    {NaN, Infinity(FALSE), Infinity(TRUE)}
    \cup {Num(s, MagOfNat(d), f) : s \in BOOLEAN, d \in 0..MaxOff, f \in Fracs}
    \cup {Num(s, Near(e, d), f) : s \in BOOLEAN, e \in SmallExps, d \in Offsets, f \in Fracs}
    \cup {Num(s, Near(e, d), 0) : s \in BOOLEAN, e \in LargeExps, d \in Offsets}

BigIntInputs == {BigIntValue(s, MagOfNat(d)) : s \in BOOLEAN, d \in 0..MaxOff}

IntegerOptions ==
    {Options(e, c, FALSE, FALSE, x, g) :
        e \in BOOLEAN, c \in BOOLEAN, x \in Contexts, g \in BOOLEAN}

---------------------------------------------------------------------------
(* The caller *)

Idle ==
    /\ pc = "idle"
    /\ call = None
    /\ out = None
    /\ again = None

Init ==
    /\ Idle
    /\ detached = {}

\* one call of a converter of the registry
Invoke(name, V, opts) ==
    /\ pc = "idle"
    /\ pc' = "returned"
    /\ call' = [name |-> name, V |-> V, opts |-> opts]
    /\ out' = Registry(name, V, opts)
    /\ again' = None
    /\ UNCHANGED detached

InvokeInteger ==
    /\ pc = "idle"
    /\ \E name \in IntegerNames, V \in NumberInputs \cup BigIntInputs, opts \in IntegerOptions :
          Invoke(name, V, opts)

InvokeLongLong ==
    /\ pc = "idle"
    /\ \E name \in LongLongNames, V \in NumberInputs \cup BigIntInputs, opts \in IntegerOptions :
          Invoke(name, V, opts)

\* the caller passes the value it got back to the same converter once more
Reapply ==
    /\ pc = "returned"
    /\ out.kind = "return"
    /\ pc' = "reapplied"
    /\ again' = Registry(call.name, out.value, call.opts)
    /\ UNCHANGED <<call, out, detached>>

\* the caller is done with the outcome
Complete ==
    /\ pc \in {"returned", "reapplied"}
    /\ pc' = "idle"
    /\ call' = None
    /\ out' = None
    /\ again' = None
    /\ UNCHANGED detached

NextInteger == InvokeInteger \/ InvokeLongLong \/ Reapply \/ Complete

SpecInteger == Init /\ [][NextInteger]_vars

---------------------------------------------------------------------------
(* The string converters' caller *)

\* code units of the inputs: a letter, and the ends of the two surrogate ranges
CodeUnits == {65, 55296, 56319, 56320, 57343}

RECURSIVE StringsUpTo(_)
StringsUpTo(n) ==
    IF n = 0 THEN {<<>>}
    ELSE StringsUpTo(n - 1)
         \cup {Append(s, c) : s \in {t \in StringsUpTo(n - 1) : Len(t) = n - 1}, c \in CodeUnits}

StringInputs == {StringValue(u) : u \in StringsUpTo(MaxLen)} \cup {Null, SymbolValue}

StringOptions ==
    {Options(FALSE, FALSE, FALSE, n, x, g) : n \in BOOLEAN, x \in Contexts, g \in BOOLEAN}

InvokeDOMString ==
    /\ pc = "idle"
    /\ \E V \in StringInputs, opts \in StringOptions : Invoke("DOMString", V, opts)

InvokeUSVString ==
    /\ pc = "idle"
    /\ \E V \in StringInputs, opts \in StringOptions : Invoke("USVString", V, opts)

NextString == InvokeDOMString \/ InvokeUSVString \/ Complete

SpecString == Init /\ [][NextString]_vars

---------------------------------------------------------------------------
(* The buffer converters' caller, and the host that detaches buffers *)

ArrayBuffers == {ArrayBufferObject(i) : i \in 1..NumBuffers}

Buffers == ArrayBuffers \cup {SharedArrayBufferObject}

Views == {ViewObject(k, b) : k \in TypedArrayNames \cup {"DataView"}, b \in Buffers}

BufferInputs == Buffers \cup Views \cup {PlainObject, FunctionObject}

BufferOptions ==
    {Options(FALSE, FALSE, a, FALSE, x, g) : a \in BOOLEAN, x \in Contexts, g \in BOOLEAN}

InvokeArrayBuffer ==
    /\ pc = "idle"
    /\ \E V \in BufferInputs, opts \in BufferOptions : Invoke("ArrayBuffer", V, opts)

InvokeDataView ==
    /\ pc = "idle"
    /\ \E V \in BufferInputs, opts \in BufferOptions : Invoke("DataView", V, opts)

InvokeTypedArray ==
    /\ pc = "idle"
    /\ \E name \in TypedArrayNames, V \in BufferInputs, opts \in BufferOptions :
          Invoke(name, V, opts)

InvokeArrayBufferView ==
    /\ pc = "idle"
    /\ \E V \in BufferInputs, opts \in BufferOptions : Invoke("ArrayBufferView", V, opts)

InvokeBufferSource ==
    /\ pc = "idle"
    /\ \E V \in BufferInputs, opts \in BufferOptions : Invoke("BufferSource", V, opts)

\* the host detaches a non-shared buffer (a transfer); no call is in progress,
\* the converters being synchronous
Detach ==
    /\ pc = "idle"
    /\ \E b \in ArrayBuffers \ detached : detached' = detached \cup {b}
    /\ UNCHANGED <<pc, call, out, again>>

Next ==
    \/ InvokeArrayBuffer
    \/ InvokeDataView
    \/ InvokeTypedArray
    \/ InvokeArrayBufferView
    \/ InvokeBufferSource
    \/ Detach
    \/ Complete

Spec == Init /\ [][Next]_vars

---------------------------------------------------------------------------
(* What the claims speak of *)

Called == call # None

\* a failure built by makeException: a TypeError whose message is
\* "<context> <detail>." with "Value" for a missing context
IsTypeConversionError(o, opts) ==
    /\ o.kind = "throw"
    /\ o.error.type = "TypeError"
    /\ Len(o.error.message) = 4
    /\ o.error.message[1] = (IF opts.context # "" THEN opts.context ELSE "Value")
    /\ o.error.message[2] = " "
    /\ o.error.message[4] = "."

\* the n-bit two's-complement window of a type, as Numbers
WindowLower(name) ==
    IF UnsignedOf(name) THEN PlusZero ELSE Num(TRUE, PowTwo(BitLengthOf(name) - 1), 0)

WindowUpper(name) ==
    IF UnsignedOf(name)
    THEN Num(FALSE, SubMag(PowTwo(BitLengthOf(name)), MagOfNat(1)), 0)
    ELSE Num(FALSE, SubMag(PowTwo(BitLengthOf(name) - 1), MagOfNat(1)), 0)

\* the range a converter accepts: the window, narrowed for the 64-bit types to
\* the integers a double holds exactly
RangeLower(name) ==
    IF name \in LongLongNames
    THEN (IF UnsignedOf(name) THEN PlusZero ELSE Num(TRUE, SubMag(PowTwo(53), MagOfNat(1)), 0))
    ELSE WindowLower(name)

RangeUpper(name) ==
    IF name \in LongLongNames
    THEN Num(FALSE, SubMag(PowTwo(53), MagOfNat(1)), 0)
    ELSE WindowUpper(name)

Within(x, lo, hi) == x.c = "fin" /\ CmpFinite(x, lo) >= 0 /\ CmpFinite(x, hi) <= 0

\* x with its fraction dropped, and 0 for -0
TowardZero(x) == IF x.mag = ZeroMag THEN PlusZero ELSE Num(x.neg, x.mag, 0)

\* r and t differ by a multiple of 2^n
Congruent(r, t, n) == LowBits(AddInteger(BigInt(r), Negate(BigInt(t))).mag, n) = ZeroMag

\* x, a finite Number, brought into [lo, hi]
Saturated(x, lo, hi) ==
    IF x.c = "inf" THEN (IF x.neg THEN lo ELSE hi)
    ELSE IF CmpFinite(x, lo) < 0 THEN lo
    ELSE IF CmpFinite(x, hi) > 0 THEN hi
    ELSE x

\* x rounded to the nearest integer, a tie going to the even one, 0 for -0
NearestEven(x) ==
    LET up == \/ x.frac > 5
              \/ x.frac = 5 /\ x.mag[1] % 2 = 1
        m == IF up THEN AddMag(x.mag, MagOfNat(1)) ELSE x.mag
    IN  IF m = ZeroMag THEN PlusZero ELSE Num(x.neg, m, 0)

\* the scalar-value repair of a string of code units, left to right
IsHigh(c) == 55296 <= c /\ c <= 56319

IsLow(c) == 56320 <= c /\ c <= 57343

RECURSIVE Repaired(_)
Repaired(S) ==
    IF S = <<>> THEN <<>>
    ELSE IF ~IsHigh(S[1]) /\ ~IsLow(S[1]) THEN <<S[1]>> \o Repaired(Tail(S))
    ELSE IF IsHigh(S[1]) /\ Len(S) >= 2 /\ IsLow(S[2])
    THEN <<S[1], S[2]>> \o Repaired(Tail(Tail(S)))
    ELSE <<65533>> \o Repaired(Tail(S))

\* the buffer a buffer or view value is backed by
BackingBuffer(V) == IF V \in Buffers THEN V ELSE V.buffer

---------------------------------------------------------------------------
(* The claims *)

\* C1: an 8-, 16- or 32-bit converter called with neither enforceRange nor clamp
\* returns 0 for a non-finite or zero Number, and for every other finite Number
\* V the integer of the type's window that is congruent to trunc(V) modulo
\* 2^bitLength; it returns and does not fail.
C1_DefaultWraps ==
    (/\ Called
     /\ call.name \in IntegerNames
     /\ ~call.opts.enforceRange /\ ~call.opts.clamp
     /\ call.V.t = "number")
    => IF call.V.c # "fin" \/ IsZero(call.V)
       THEN out = Return(PlusZero)
       ELSE /\ out.kind = "return"
            /\ IsInteger(out.value)
            /\ Within(out.value, WindowLower(call.name), WindowUpper(call.name))
            /\ Congruent(out.value, TowardZero(call.V), BitLengthOf(call.name))

\* C2: under enforceRange every integer converter fails with a
\* TypeConversionError for NaN and +/-Infinity, and otherwise truncates toward
\* zero (0 for -0), fails with a TypeConversionError exactly when the truncated
\* value is outside the converter's range, and returns the truncated value
\* otherwise.
C2_EnforceRange ==
    (/\ Called
     /\ call.name \in IntegerNames \cup LongLongNames
     /\ call.opts.enforceRange
     /\ call.V.t = "number")
    => IF call.V.c # "fin"
       THEN IsTypeConversionError(out, call.opts)
       ELSE IF Within(TowardZero(call.V), RangeLower(call.name), RangeUpper(call.name))
       THEN out = Return(TowardZero(call.V))
       ELSE IsTypeConversionError(out, call.opts)

\* C2's case: byte with enforceRange returned -128 for -128.9
C2_Witness ==
    /\ Called
    /\ call.name = "byte"
    /\ call.opts.enforceRange
    /\ call.V = Num(TRUE, MagOfNat(128), 9)
    /\ out = Return(Num(TRUE, MagOfNat(128), 0))

\* C3: under clamp (enforceRange unset) every integer converter, given a Number
\* that is not NaN, returns it saturated into the converter's range and then
\* rounded to the nearest integer, ties to even; it never fails.
C3_ClampSaturates ==
    (/\ Called
     /\ call.name \in IntegerNames \cup LongLongNames
     /\ call.opts.clamp /\ ~call.opts.enforceRange
     /\ call.V.t = "number" /\ call.V.c # "nan")
    => out = Return(NearestEven(Saturated(call.V, RangeLower(call.name),
                                          RangeUpper(call.name))))

\* C4: the ArrayBuffer converter, given a shared buffer that is not detached,
\* fails with a TypeConversionError unless allowShared is set and then returns
\* the same buffer; given a non-shared buffer that is not detached it returns
\* the buffer under either setting.
C4_SharedBufferAdmission ==
    (/\ Called
     /\ call.name = "ArrayBuffer"
     /\ call.V \in Buffers
     /\ call.V \notin detached)
    => IF call.V = SharedArrayBufferObject /\ ~call.opts.allowShared
       THEN IsTypeConversionError(out, call.opts)
       ELSE out = Return(call.V)

\* C5: a call of any buffer or view converter on a detached buffer, or on a
\* view backed by one, fails, whatever allowShared is.
C5_DetachedRejected ==
    (/\ Called
     /\ call.name \in BufferConverterNames
     /\ call.V \in Buffers \cup Views
     /\ BackingBuffer(call.V) \in detached)
    => out.kind = "throw"

\* C5's case: ArrayBufferView, with allowShared, refused a view whose buffer
\* had been detached
C5_Witness ==
    /\ Called
    /\ call.name = "ArrayBufferView"
    /\ call.opts.allowShared
    /\ call.V = ViewObject("Uint8Array", ArrayBufferObject(1))
    /\ ArrayBufferObject(1) \in detached
    /\ IsTypeConversionError(out, call.opts)
    /\ out.error.message[3] = <<"is a view on a detached ArrayBuffer">>

\* C6: USVString returns, for every string, the string in which each unpaired
\* surrogate is replaced by U+FFFD and every other code unit is kept; it does
\* not fail.
C6_SurrogateRepair ==
    (/\ Called
     /\ call.name = "USVString"
     /\ call.V.t = "string")
    => out = Return(StringValue(Repaired(call.V.units)))

\* C7: every failure of a converter is a TypeConversionError with the message
\* "<context> <detail>.".
C7_SingleErrorKind ==
    (Called /\ out.kind = "throw") => IsTypeConversionError(out, call.opts)

\* C8: every value a 64-bit converter returns is a BigInt of the 64-bit window
\* of its signedness, and under the default policy it is trunc(V) reduced
\* modulo 2^64 for a finite nonzero V.
C8_LongLongReturnsBigInt ==
    (/\ Called
     /\ call.name \in LongLongNames
     /\ out.kind = "return")
    => /\ out.value.t = "bigint"
       /\ Within(out.value, WindowLower(call.name), WindowUpper(call.name))
       /\ (/\ ~call.opts.enforceRange /\ ~call.opts.clamp
           /\ call.V.c = "fin" /\ ~IsZero(call.V))
          => Congruent(out.value, TowardZero(call.V), 64)

\* C9: a fixed-width view converter returns the view it was given exactly when
\* the value is a typed view of the converter's kind whose buffer is not
\* detached and is non-shared or admitted by allowShared; otherwise it fails
\* with a TypeConversionError, which for a value of another shape names the
\* kind with "an" before a vowel and "a" otherwise.
C9_TypedArrayAccepted ==
    (/\ Called
     /\ call.name \in TypedArrayNames)
    => IF call.V \in Views /\ call.V.class = call.name
       THEN IF /\ call.V.buffer \notin detached
               /\ (call.V.buffer # SharedArrayBufferObject \/ call.opts.allowShared)
            THEN out = Return(call.V)
            ELSE IsTypeConversionError(out, call.opts)
       ELSE /\ IsTypeConversionError(out, call.opts)
            /\ out.error.message[3] =
                 <<"is not ", IF StartsWithVowel(call.name) THEN "an" ELSE "a",
                   " ", call.name, " object">>

\* C10: every integer converter, under every policy, returns an integer v of
\* its range as it is, and returns v again when given its own result.
C10_InRangeFixedPoint ==
    (/\ Called
     /\ call.name \in IntegerNames \cup LongLongNames
     /\ call.V.t = "number"
     /\ IsInteger(call.V) /\ call.V # MinusZero
     /\ Within(call.V, RangeLower(call.name), RangeUpper(call.name)))
    => /\ out.kind = "return"
       /\ out.value.c = "fin" /\ CmpFinite(out.value, call.V) = 0
       /\ pc = "reapplied" =>
             /\ again.kind = "return"
             /\ again.value.c = "fin" /\ CmpFinite(again.value, call.V) = 0

============================================================================
